---------------------------- MODULE Spec2Model ----------------------------
(***************************************************************************)
(* Consul discoverer of gimbal: the reconciliation loop (Reconciler.Run,   *)
(* Reconciler.reconcile), the projection of consul services into           *)
(* Kubernetes Services and Endpoints (kubeServices, kubeEndpoints) and the *)
(* differ (diffServices, diffEndpoints).                                   *)
(*                                                                         *)
(* Strings the code transforms (service names, resource names, port names) *)
(* are sequences of one-character strings, so that strings.ToLower,        *)
(* strconv.Itoa and concatenation are computed, not assumed.               *)
(***************************************************************************)
EXTENDS Integers, Sequences, FiniteSets, TLC

(***************************************************************************)
(* Bounds of the model.                                                    *)
(***************************************************************************)
\* longest desired / observed list handed to the differ in SpecDiff
MaxLen == 2
\* cycles started by a timer tick (the eager first cycle comes on top)
MaxTicks == 1

(***************************************************************************)
(* Configuration, read once at construction (NewReconciler).               *)
(***************************************************************************)
backendName == <<"c", "1">>

namespace == "consul"

tagFilter == "gateway"

(***************************************************************************)
(* Strings.                                                                *)
(***************************************************************************)
UpperChars == <<"W", "E", "B", "D">>

LowerChars == <<"w", "e", "b", "d">>

\* unicode.ToLower on one character
ToLowerChar(c) ==
    IF \E i \in 1..Len(UpperChars) : UpperChars[i] = c
    THEN LowerChars[CHOOSE i \in 1..Len(UpperChars) : UpperChars[i] = c]
    ELSE c

\* strings.ToLower
ToLower(s) == [i \in 1..Len(s) |-> ToLowerChar(s[i])]

Digits == <<"0", "1", "2", "3", "4", "5", "6", "7", "8", "9">>

RECURSIVE ItoaNat(_)
ItoaNat(n) == IF n < 10 THEN <<Digits[n + 1]>>
              ELSE ItoaNat(n \div 10) \o <<Digits[(n % 10) + 1]>>

\* strconv.Itoa
Itoa(n) == IF n < 0 THEN <<"-">> \o ItoaNat(0 - n) ELSE ItoaNat(n)

\* the conversion int32(x) of a Go int: it keeps every value from -2^31 to
\* 2^31 - 1, and a port (0..65535) is one of them
Int32(x) == x

(***************************************************************************)
(* Translator (pkg/translator, not part of the sources at hand).           *)
(***************************************************************************)
\* translator.BuildDiscoveredName: backend name, a dash, the service name
BuildDiscoveredName(backend, name) == backend \o <<"-">> \o name

\* translator.AddGimbalLabels: the labels given plus the backend and service markers
AddGimbalLabels(backend, name, existing) ==
    existing \cup {<<"gimbal.projectcontour.io/backend", backend>>,
                   <<"gimbal.projectcontour.io/service", name>>}

(***************************************************************************)
(* Projector: kubeServices, kubeEndpoints.                                 *)
(***************************************************************************)
\* get the lb Name or ID if name is empty
serviceNameOriginal(service) == ToLower(service.Name)

\* serviceName without the lower-casing
serviceName_AsIs(service) == service.Name

\* use the load balancer ID as the service name
serviceName(service) == ToLower(service.Name)

portName(port) == <<"p", "o", "r", "t", "-">> \o Itoa(port)

\* the label sanitising is commented out: the map returned is empty
consulLabels(service) == {}

\* intstr.FromInt
FromInt(val) == [Type |-> "Int", IntVal |-> Int32(val)]

\* the v1.Service built for one element of the slice
kubeService(backend, tenantName, service) ==
    [Namespace |-> tenantName,
     Name      |-> BuildDiscoveredName(backend, serviceName(service)),
     Labels    |-> AddGimbalLabels(backend, serviceName(service), consulLabels(service)),
     Type      |-> "ClusterIP",
     ClusterIP |-> "None",
     Ports     |-> << [Name       |-> portName(service.Port),
                       Port       |-> Int32(service.Port),
                       TargetPort |-> FromInt(service.Port),
                       Protocol   |-> "TCP"] >>]

\* returns a kubernetes service for each consul service in the slice
kubeServices(backend, tenantName, services) ==
    [i \in 1..Len(services) |-> kubeService(backend, tenantName, services[i])]

\* the loop over service.Nodes with the map keyed by the node
RECURSIVE subsetsAfter_PerNode(_, _)
subsetsAfter_PerNode(service, n) ==
    IF n = 0 THEN << >>
    ELSE LET subsets == subsetsAfter_PerNode(service, n - 1)
             key == service.Nodes[n]
             s   == IF key \in DOMAIN subsets THEN subsets[key]
                    ELSE [Addresses |-> << >>, Ports |-> << >>]
             s1  == IF Len(s.Ports) = 0
                    THEN [s EXCEPT !.Ports = Append(s.Ports,
                              [Name     |-> portName(service.Port),
                               Port     |-> Int32(service.Port),
                               Protocol |-> "TCP"])]
                    ELSE s
             s2  == [s1 EXCEPT !.Addresses = Append(s1.Addresses, [IP |-> service.Nodes[n]])]
         IN  [k \in (DOMAIN subsets) \cup {key} |-> IF k = key THEN s2 ELSE subsets[k]]

\* the loop over service.Nodes: the map of subsets, keyed by service.Name,
\* after the first n nodes
RECURSIVE subsetsAfter(_, _)
subsetsAfter(service, n) ==
    IF n = 0 THEN << >>
    ELSE LET subsets == subsetsAfter(service, n - 1)
             key == service.Name
             s   == IF key \in DOMAIN subsets THEN subsets[key]
                    ELSE [Addresses |-> << >>, Ports |-> << >>]
             s1  == IF Len(s.Ports) = 0
                    THEN [s EXCEPT !.Ports = Append(s.Ports,
                              [Name     |-> portName(service.Port),
                               Port     |-> Int32(service.Port),
                               Protocol |-> "TCP"])]
                    ELSE s
             s2  == [s1 EXCEPT !.Addresses = Append(s1.Addresses, [IP |-> service.Nodes[n]])]
         IN  [k \in (DOMAIN subsets) \cup {key} |-> IF k = key THEN s2 ELSE subsets[k]]

\* "for _, s := range subsets": the values of the map as a slice; the map
\* holds one key at most (service.Name), so the order of the range is fixed
RECURSIVE mapValues(_)
mapValues(m) ==
    IF DOMAIN m = {} THEN << >>
    ELSE LET k == CHOOSE x \in DOMAIN m : TRUE
         IN  <<m[k]>> \o mapValues([x \in (DOMAIN m) \ {k} |-> m[x]])

\* the Endpoints (v1.Endpoints + upstream name) built for one element of the slice
kubeEndpoint(backend, tenantName, service) ==
    [endpoints |->
        [Namespace |-> tenantName,
         Name      |-> BuildDiscoveredName(backend, serviceName(service)),
         Labels    |-> AddGimbalLabels(backend, serviceName(service), consulLabels(service)),
         Subsets   |-> mapValues(subsetsAfter(service, Len(service.Nodes)))],
     upstreamName |-> serviceNameOriginal(service)]

\* kubeEndpoints keeping one resource per derived name (the first)
kubeEndpoints_Merged(backend, tenantName, services) ==
    LET all  == [i \in 1..Len(services) |-> kubeEndpoint(backend, tenantName, services[i])]
        seen == {all[i] : i \in {k \in 1..Len(all) :
                                    \E j \in 1..(k - 1) : all[j].endpoints.Name = all[k].endpoints.Name}}
    IN  SelectSeq(all, LAMBDA e : e \notin seen)

\* returns a kubernetes endpoints resource for each consul service in the slice
kubeEndpoints(backend, tenantName, services) ==
    [i \in 1..Len(services) |-> kubeEndpoint(backend, tenantName, services[i])]

(***************************************************************************)
(* Differ: diffServices, diffEndpoints.                                    *)
(***************************************************************************)
serviceEquals(o1, o2) ==
    o1.Name = o2.Name /\ o1.Namespace = o2.Namespace

\* serviceEqualsDetail comparing the whole Service
serviceEqualsDetail_Whole(o1, o2) == o1 = o2

serviceEqualsDetail(o1, o2) ==
    o1.Name = o2.Name /\ o1.Namespace = o2.Namespace /\ o1.Ports = o2.Ports

endpointEquals(o1, o2) ==
    o1.endpoints.Name = o2.endpoints.Name
        /\ o1.endpoints.Namespace = o2.endpoints.Namespace

\* endpointEqualsDetail comparing the whole Endpoints, upstream name included
endpointEqualsDetail_Whole(o1, o2) == o1 = o2

endpointEqualsDetail(o1, o2) ==
    o1.endpoints.Name = o2.endpoints.Name
        /\ o1.endpoints.Namespace = o2.endpoints.Namespace
        /\ o1.endpoints.Subsets = o2.endpoints.Subsets

\* containsSvc comparing the names alone
containsSvc_ByName(x, xs) == \E i \in 1..Len(xs) : x.Name = xs[i].Name

containsSvc(x, xs) == \E i \in 1..Len(xs) : serviceEquals(x, xs[i])

containsEndpoint(x, xs) == \E i \in 1..Len(xs) : endpointEquals(x, xs[i])

\* the third loop of diffServices over current[1..n]: for each current
\* service the first desired service of the same identity, appended when the
\* detail differs
\* the third loop of diffServices matching on the name alone
RECURSIVE updateSvcs_MatchByName(_, _, _)
updateSvcs_MatchByName(desired, current, n) ==
    IF n = 0 THEN << >>
    ELSE LET before == updateSvcs_MatchByName(desired, current, n - 1)
             currentSvc == current[n]
             hits == {j \in 1..Len(desired) : currentSvc.Name = desired[j].Name}
         IN  IF hits = {} THEN before
             ELSE LET desiredSvc == desired[CHOOSE j \in hits : \A k \in hits : j <= k]
                  IN  IF ~serviceEqualsDetail(currentSvc, desiredSvc)
                      THEN Append(before, desiredSvc)
                      ELSE before

\* the third loop of diffServices appending the current service
RECURSIVE updateSvcs_Current(_, _, _)
updateSvcs_Current(desired, current, n) ==
    IF n = 0 THEN << >>
    ELSE LET before == updateSvcs_Current(desired, current, n - 1)
             currentSvc == current[n]
             hits == {j \in 1..Len(desired) : serviceEquals(currentSvc, desired[j])}
         IN  IF hits = {} THEN before
             ELSE LET desiredSvc == desired[CHOOSE j \in hits : \A k \in hits : j <= k]
                  IN  IF ~serviceEqualsDetail(currentSvc, desiredSvc)
                      THEN Append(before, currentSvc)
                      ELSE before

RECURSIVE updateSvcs(_, _, _)
updateSvcs(desired, current, n) ==
    IF n = 0 THEN << >>
    ELSE LET before == updateSvcs(desired, current, n - 1)
             currentSvc == current[n]
             hits == {j \in 1..Len(desired) : serviceEquals(currentSvc, desired[j])}
         IN  IF hits = {} THEN before
             ELSE LET desiredSvc == desired[CHOOSE j \in hits : \A k \in hits : j <= k]
                  IN  IF ~serviceEqualsDetail(currentSvc, desiredSvc)
                      THEN Append(before, desiredSvc)
                      ELSE before

diffServices(desired, current) ==
    [add    |-> SelectSeq(desired, LAMBDA desiredSvc : ~containsSvc(desiredSvc, current)),
     update |-> updateSvcs(desired, current, Len(current)),
     del    |-> SelectSeq(current, LAMBDA currentSvc : ~containsSvc(currentSvc, desired))]

\* the third loop of diffEndpoints without its break: every desired entry of
\* the identity is compared
RECURSIVE updateEndpoints_NoBreak(_, _, _)
updateEndpoints_NoBreak(desired, current, n) ==
    IF n = 0 THEN << >>
    ELSE updateEndpoints_NoBreak(desired, current, n - 1)
            \o SelectSeq(desired, LAMBDA desiredEp :
                    endpointEquals(current[n], desiredEp)
                        /\ ~endpointEqualsDetail(current[n], desiredEp))

\* the third loop of diffEndpoints over current[1..n]
RECURSIVE updateEndpoints(_, _, _)
updateEndpoints(desired, current, n) ==
    IF n = 0 THEN << >>
    ELSE LET before == updateEndpoints(desired, current, n - 1)
             currentEp == current[n]
             hits == {j \in 1..Len(desired) : endpointEquals(currentEp, desired[j])}
         IN  IF hits = {} THEN before
             ELSE LET desiredEp == desired[CHOOSE j \in hits : \A k \in hits : j <= k]
                  IN  IF ~endpointEqualsDetail(currentEp, desiredEp)
                      THEN Append(before, desiredEp)
                      ELSE before

diffEndpoints(desired, current) ==
    [add    |-> SelectSeq(desired, LAMBDA desiredEp : ~containsEndpoint(desiredEp, current)),
     update |-> updateEndpoints(desired, current, Len(current)),
     del    |-> SelectSeq(current, LAMBDA currentEp : ~containsEndpoint(currentEp, desired))]


(***************************************************************************)
(* The registry (consul) and the target cluster, as far as the loop sees   *)
(* them.                                                                   *)
(***************************************************************************)
\* most services the catalog of one run holds
MaxServices == 2

web == <<"w", "e", "b">>

Web == <<"W", "e", "b">>

db == <<"d", "b">>

Names == {web, Web, db}

TagLists == {<<"other">>, <<"other", "gateway">>}

\* Catalog().Services: a map from service name to its tags
Catalogs ==
    UNION {[S -> TagLists] : S \in {T \in SUBSET Names : Cardinality(T) <= MaxServices}}

\* Health().Service(name, "", true): the passing instances of a service, in
\* response order
healthyInstances(name) ==
    CASE name = web -> << [Address |-> "10.0.0.1", Port |-> 80] >>
      [] name = Web -> << [Address |-> "10.0.0.2", Port |-> 0],
                          [Address |-> "10.0.0.1", Port |-> 81] >>
      [] OTHER      -> << >>

\* the loop over servicesData keeping the port of the last instance that
\* reports one
RECURSIVE portAfter_Last(_, _)
portAfter_Last(data, n) ==
    IF n = 0 THEN 0
    ELSE IF data[n].Port # 0 THEN data[n].Port
         ELSE portAfter_Last(data, n - 1)

\* the Service built from the instances of one service (the loop over servicesData)
RECURSIVE portAfter(_, _)
portAfter(servicesData, n) ==
    IF n = 0 THEN 0
    ELSE IF portAfter(servicesData, n - 1) = 0 THEN servicesData[n].Port
         ELSE portAfter(servicesData, n - 1)

buildService(name, servicesData) ==
    [Name  |-> name,
     Port  |-> portAfter(servicesData, Len(servicesData)),
     Nodes |-> [i \in 1..Len(servicesData) |-> servicesData[i].Address]]

\* contains looking at the first tag alone
contains_First(s, e) == Len(s) > 0 /\ e = s[1]

contains(s, e) == \E i \in 1..Len(s) : e = s[i]

\* resources the cluster may hold under this backend's label: what cycles
\* project from the registry
ObservedModels == {buildService(n, healthyInstances(n)) : n \in Names}

ObservedServices == {kubeService(backendName, namespace, m) : m \in ObservedModels}

\* a v1.Endpoints as listed, wrapped as reconcile wraps it
ObservedEndpoints ==
    {[endpoints |-> kubeEndpoint(backendName, namespace, m).endpoints,
      upstreamName |-> << >>] : m \in ObservedModels}

\* the lists a List call may return: a name occurs once in a namespace, and
\* the items come ordered by name
ResourceNames == <<BuildDiscoveredName(backendName, db), BuildDiscoveredName(backendName, web)>>

RECURSIVE listsOver(_, _)
listsOver(byName, n) ==
    IF n = 0 THEN {<< >>}
    ELSE LET rest == listsOver(byName, n - 1)
         IN  rest \cup {Append(l, x) : l \in rest, x \in byName[n]}

ServiceLists ==
    listsOver([i \in 1..Len(ResourceNames) |->
                  {s \in ObservedServices : s.Name = ResourceNames[i]}], Len(ResourceNames))

EndpointsLists ==
    listsOver([i \in 1..Len(ResourceNames) |->
                  {e \in ObservedEndpoints : e.endpoints.Name = ResourceNames[i]}], Len(ResourceNames))

(***************************************************************************)
(* Actions handed to the sync queue (pkg/sync).                            *)
(***************************************************************************)
ServiceAction(op, svc) == [op |-> op, obj |-> svc]

EndpointsAction(op, ep) == [op |-> op, obj |-> ep.endpoints, upstreamName |-> ep.upstreamName]

\* reconcileSvcs enqueuing the deletes first
svcActions_DeleteFirst(desired, current) ==
    LET d == diffServices(desired, current)
    IN  [i \in 1..Len(d.del) |-> ServiceAction("DeleteService", d.del[i])]
            \o [i \in 1..Len(d.add) |-> ServiceAction("AddService", d.add[i])]
            \o [i \in 1..Len(d.update) |-> ServiceAction("UpdateService", d.update[i])]

\* the Enqueue calls of reconcileSvcs, in call order
svcActions(desired, current) ==
    LET d == diffServices(desired, current)
    IN  [i \in 1..Len(d.add) |-> ServiceAction("AddService", d.add[i])]
            \o [i \in 1..Len(d.update) |-> ServiceAction("UpdateService", d.update[i])]
            \o [i \in 1..Len(d.del) |-> ServiceAction("DeleteService", d.del[i])]

\* the Enqueue calls of reconcileEndpoints, in call order
endpointsActions(desired, current) ==
    LET d == diffEndpoints(desired, current)
    IN  [i \in 1..Len(d.add) |-> EndpointsAction("AddEndpoints", d.add[i])]
            \o [i \in 1..Len(d.update) |-> EndpointsAction("UpdateEndpoints", d.update[i])]
            \o [i \in 1..Len(d.del) |-> EndpointsAction("DeleteEndpoints", d.del[i])]

(***************************************************************************)
(* State.                                                                  *)
(***************************************************************************)
VARIABLES
    catalog,           \* the registry: service name -> tags
    pc,                \* where Run is: start, catalog, range, listSvcs, listEps,
                       \* reconcileSvcs, reconcileEndpoints, select, stopped
    stopC,             \* the stop channel is closed
    tickerC,           \* ticker.C holds a tick
    ticks,             \* cycles started by a tick so far
    cause,             \* what started the cycle in progress or last run: none, eager, tick
    pending,           \* names "range services" has still to visit
    svcs,              \* the Service slice built by the cycle
    currentServices,   \* the observed Services of the cycle
    currentEndpoints,  \* the observed Endpoints of the cycle
    desiredSvcs,       \* kubeServices(...) of the cycle
    desiredEndpoints,  \* kubeEndpoints(...) of the cycle
    emitted,           \* the actions the cycle has enqueued, in order
    queued,            \* the sync queue holds actions no worker has taken yet
    cyc,               \* what the cycle has done: its calls, their failures, its
                       \* calls of metrics.GenericMetricError, and whether the
                       \* stop channel was closed when it was entered
    prev,              \* the cycle before: its registry failures and its projection
    diffKind,          \* SpecDiff: the differ under test, Service or Endpoints
    diffDesired,       \* SpecDiff: its desired list
    diffCurrent,       \* SpecDiff: its current list
    diffResult,        \* SpecDiff: what it returned (add, update, del), once called
    servicesData       \* SpecProject: the instances Health().Service answered with

loopVars == <<pc, stopC, tickerC, ticks, cause>>

cycleVars == <<pending, svcs, currentServices, currentEndpoints, desiredSvcs,
               desiredEndpoints, emitted, cyc>>

vars == <<catalog, pc, stopC, tickerC, ticks, cause, pending, svcs, currentServices,
          currentEndpoints, desiredSvcs, desiredEndpoints, emitted, queued, cyc, prev,
          diffKind, diffDesired, diffCurrent, diffResult, servicesData>>

diffVars == <<diffKind, diffDesired, diffCurrent, diffResult>>

projVars == <<servicesData>>

NoDiff == [called |-> FALSE]

NoCalls ==
    [afterStop |-> FALSE, catalogErr |-> FALSE, healthCalls |-> << >>, healthErrs |-> {},
     listCalls |-> << >>, listErrs |-> {}, metricErrors |-> << >>, steps |-> {},
     returned |-> FALSE]

NoPrev == [ran |-> FALSE]

\* the locals of reconcile at its entry
FreshCycle ==
    /\ pending' = {}
    /\ svcs' = << >>
    /\ currentServices' = << >>
    /\ currentEndpoints' = << >>
    /\ desiredSvcs' = << >>
    /\ desiredEndpoints' = << >>
    /\ emitted' = << >>
    /\ cyc' = [NoCalls EXCEPT !.afterStop = stopC]

Init ==
    /\ catalog \in Catalogs
    /\ pc = "start"
    /\ stopC = FALSE
    /\ tickerC = FALSE
    /\ ticks = 0
    /\ cause = "none"
    /\ pending = {}
    /\ svcs = << >>
    /\ currentServices = << >>
    /\ currentEndpoints = << >>
    /\ desiredSvcs = << >>
    /\ desiredEndpoints = << >>
    /\ emitted = << >>
    /\ queued = FALSE
    /\ cyc = NoCalls
    /\ prev = NoPrev
    /\ diffKind = "none"
    /\ diffDesired = << >>
    /\ diffCurrent = << >>
    /\ diffResult = NoDiff
    /\ servicesData = << >>

(***************************************************************************)
(* Reconciler.Run.                                                         *)
(***************************************************************************)
\* Run up to its first statement of reconcile: the queue workers and the
\* ticker are started, and the initial reconciliation is entered
RunStart ==
    /\ pc = "start"
    /\ pc' = "catalog"
    /\ cause' = "eager"
    /\ FreshCycle
    /\ UNCHANGED diffVars
    /\ UNCHANGED projVars
    /\ UNCHANGED <<catalog, stopC, tickerC, ticks, queued, prev>>

\* the stop case running a last reconciliation
RunStop_FinalCycle ==
    /\ pc = "select"
    /\ stopC
    /\ pc' = "catalog"
    /\ FreshCycle
    /\ UNCHANGED diffVars
    /\ UNCHANGED projVars
    /\ UNCHANGED <<catalog, stopC, tickerC, ticks, cause, queued, prev>>

\* the stop case leaving the select, not the loop (break for return)
RunStop_Break ==
    /\ pc = "select"
    /\ stopC
    /\ pc' = "select"
    /\ UNCHANGED diffVars
    /\ UNCHANGED projVars
    /\ UNCHANGED <<catalog, stopC, tickerC, ticks, cause, queued, prev>>
    /\ UNCHANGED cycleVars

\* select: case <-stopC
RunStop ==
    /\ pc = "select"
    /\ stopC
    /\ pc' = "stopped"
    /\ UNCHANGED diffVars
    /\ UNCHANGED projVars
    /\ UNCHANGED <<catalog, stopC, tickerC, ticks, cause, queued, prev>>
    /\ UNCHANGED cycleVars

\* a select that reconciles without a tick (a default case)
RunTick_NoTick ==
    /\ pc = "select"
    /\ ticks < MaxTicks
    /\ tickerC' = FALSE
    /\ ticks' = ticks + 1
    /\ pc' = "catalog"
    /\ cause' = "tick"
    /\ prev' = [ran |-> TRUE, catalogErr |-> cyc.catalogErr, healthErrs |-> cyc.healthErrs,
                desiredSvcs |-> desiredSvcs, desiredEndpoints |-> desiredEndpoints]
    /\ FreshCycle
    /\ UNCHANGED diffVars
    /\ UNCHANGED projVars
    /\ UNCHANGED <<catalog, stopC, queued>>

\* the tick handled while a reconciliation is still running (go r.reconcile())
RunTick_Concurrent ==
    /\ pc \notin {"start", "stopped"}
    /\ tickerC
    /\ ticks < MaxTicks
    /\ tickerC' = FALSE
    /\ ticks' = ticks + 1
    /\ pc' = "catalog"
    /\ cause' = "tick"
    /\ prev' = [ran |-> TRUE, catalogErr |-> cyc.catalogErr, healthErrs |-> cyc.healthErrs,
                desiredSvcs |-> desiredSvcs, desiredEndpoints |-> desiredEndpoints]
    /\ FreshCycle
    /\ UNCHANGED diffVars
    /\ UNCHANGED projVars
    /\ UNCHANGED <<catalog, stopC, queued>>

\* select: case <-ticker.C
RunTick ==
    /\ pc = "select"
    /\ tickerC
    /\ ticks < MaxTicks
    /\ tickerC' = FALSE
    /\ ticks' = ticks + 1
    /\ pc' = "catalog"
    /\ cause' = "tick"
    /\ prev' = [ran |-> TRUE, catalogErr |-> cyc.catalogErr, healthErrs |-> cyc.healthErrs,
                desiredSvcs |-> desiredSvcs, desiredEndpoints |-> desiredEndpoints]
    /\ FreshCycle
    /\ UNCHANGED diffVars
    /\ UNCHANGED projVars
    /\ UNCHANGED <<catalog, stopC, queued>>

\* the runtime ticker puts a tick into ticker.C (capacity 1) unless one is waiting
Tick ==
    /\ pc \notin {"start", "stopped"}
    /\ ~tickerC
    /\ tickerC' = TRUE
    /\ UNCHANGED diffVars
    /\ UNCHANGED projVars
    /\ UNCHANGED <<catalog, pc, stopC, ticks, cause, queued, prev>>
    /\ UNCHANGED cycleVars

\* the signal handler closes the stop channel
Stop ==
    /\ ~stopC
    /\ stopC' = TRUE
    /\ UNCHANGED diffVars
    /\ UNCHANGED projVars
    /\ UNCHANGED <<catalog, pc, tickerC, ticks, cause, queued, prev>>
    /\ UNCHANGED cycleVars

\* a worker of the sync queue takes one action: more are left, or none
Worker ==
    /\ queued
    /\ queued' \in BOOLEAN
    /\ UNCHANGED diffVars
    /\ UNCHANGED projVars
    /\ UNCHANGED <<catalog, prev>>
    /\ UNCHANGED loopVars
    /\ UNCHANGED cycleVars

(***************************************************************************)
(* Reconciler.reconcile, statement by statement.                           *)
(***************************************************************************)
\* the end of reconcile: back in the select of Run
Return == pc' = "select"

\* the failed catalog query without its return: the cycle goes on
CatalogFail_NoReturn ==
    /\ pc = "catalog"
    /\ cyc' = [cyc EXCEPT !.catalogErr = TRUE]
    /\ pending' = {}
    /\ pc' = "range"
    /\ UNCHANGED diffVars
    /\ UNCHANGED projVars
    /\ UNCHANGED <<catalog, stopC, tickerC, ticks, cause, queued, prev>>
    /\ UNCHANGED <<svcs, currentServices, currentEndpoints, desiredSvcs,
                   desiredEndpoints, emitted>>

\* Catalog().Services fails: logged, return
CatalogFail ==
    /\ pc = "catalog"
    /\ cyc' = [cyc EXCEPT !.catalogErr = TRUE, !.returned = TRUE]
    /\ Return
    /\ UNCHANGED diffVars
    /\ UNCHANGED projVars
    /\ UNCHANGED <<catalog, stopC, tickerC, ticks, cause, queued, prev>>
    /\ UNCHANGED <<pending, svcs, currentServices, currentEndpoints, desiredSvcs,
                   desiredEndpoints, emitted>>

\* Catalog().Services succeeds: the range over the map begins
CatalogOK ==
    /\ pc = "catalog"
    /\ pending' = DOMAIN catalog
    /\ pc' = "range"
    /\ cyc' = [cyc EXCEPT !.steps = @ \cup {"catalog"}]
    /\ UNCHANGED diffVars
    /\ UNCHANGED projVars
    /\ UNCHANGED <<catalog, stopC, tickerC, ticks, cause, queued, prev>>
    /\ UNCHANGED <<svcs, currentServices, currentEndpoints, desiredSvcs,
                   desiredEndpoints, emitted>>

\* one iteration of "for name, tags := range services" (a map: any order):
\* the service lacks the filter tag
RangeSkip ==
    /\ pc = "range"
    /\ \E name \in pending :
          /\ ~contains(catalog[name], tagFilter)
          /\ pending' = pending \ {name}
    /\ UNCHANGED diffVars
    /\ UNCHANGED projVars
    /\ UNCHANGED <<catalog, queued, prev>>
    /\ UNCHANGED loopVars
    /\ UNCHANGED <<svcs, currentServices, currentEndpoints, desiredSvcs,
                   desiredEndpoints, emitted, cyc>>

\* the failed health query leaving the range (break for continue)
HealthFail_Break ==
    /\ pc = "range"
    /\ \E name \in pending :
          /\ contains(catalog[name], tagFilter)
          /\ pending' = {}
          /\ cyc' = [cyc EXCEPT !.healthCalls = Append(@, name),
                                !.healthErrs = @ \cup {name}]
    /\ UNCHANGED diffVars
    /\ UNCHANGED projVars
    /\ UNCHANGED <<catalog, queued, prev>>
    /\ UNCHANGED loopVars
    /\ UNCHANGED <<svcs, currentServices, currentEndpoints, desiredSvcs,
                   desiredEndpoints, emitted>>

\* the failed health query without its continue: the Service is built from
\* the empty answer and appended
HealthFail_NoContinue ==
    /\ pc = "range"
    /\ \E name \in pending :
          /\ contains(catalog[name], tagFilter)
          /\ pending' = pending \ {name}
          /\ svcs' = Append(svcs, buildService(name, << >>))
          /\ cyc' = [cyc EXCEPT !.healthCalls = Append(@, name),
                                !.healthErrs = @ \cup {name}]
    /\ UNCHANGED diffVars
    /\ UNCHANGED projVars
    /\ UNCHANGED <<catalog, queued, prev>>
    /\ UNCHANGED loopVars
    /\ UNCHANGED <<currentServices, currentEndpoints, desiredSvcs,
                   desiredEndpoints, emitted>>

\* one iteration: Health().Service fails, logged, continue
HealthFail ==
    /\ pc = "range"
    /\ \E name \in pending :
          /\ contains(catalog[name], tagFilter)
          /\ pending' = pending \ {name}
          /\ cyc' = [cyc EXCEPT !.healthCalls = Append(@, name),
                                !.healthErrs = @ \cup {name}]
    /\ UNCHANGED diffVars
    /\ UNCHANGED projVars
    /\ UNCHANGED <<catalog, queued, prev>>
    /\ UNCHANGED loopVars
    /\ UNCHANGED <<svcs, currentServices, currentEndpoints, desiredSvcs,
                   desiredEndpoints, emitted>>

\* the iteration skipping a service whose answer holds no instance
HealthOK_SkipEmpty ==
    /\ pc = "range"
    /\ \E name \in pending :
          /\ contains(catalog[name], tagFilter)
          /\ pending' = pending \ {name}
          /\ svcs' = IF healthyInstances(name) = << >> THEN svcs
                     ELSE Append(svcs, buildService(name, healthyInstances(name)))
          /\ cyc' = [cyc EXCEPT !.healthCalls = Append(@, name)]
    /\ UNCHANGED diffVars
    /\ UNCHANGED projVars
    /\ UNCHANGED <<catalog, queued, prev>>
    /\ UNCHANGED loopVars
    /\ UNCHANGED <<currentServices, currentEndpoints, desiredSvcs,
                   desiredEndpoints, emitted>>

\* one iteration: Health().Service succeeds, the Service is appended
HealthOK ==
    /\ pc = "range"
    /\ \E name \in pending :
          /\ contains(catalog[name], tagFilter)
          /\ pending' = pending \ {name}
          /\ svcs' = Append(svcs, buildService(name, healthyInstances(name)))
          /\ cyc' = [cyc EXCEPT !.healthCalls = Append(@, name)]
    /\ UNCHANGED diffVars
    /\ UNCHANGED projVars
    /\ UNCHANGED <<catalog, queued, prev>>
    /\ UNCHANGED loopVars
    /\ UNCHANGED <<currentServices, currentEndpoints, desiredSvcs,
                   desiredEndpoints, emitted>>

\* the failed listing ending the cycle
ListServicesFail_Abort ==
    /\ pc = "range"
    /\ pending = {}
    /\ currentServices' = << >>
    /\ cyc' = [cyc EXCEPT !.listCalls = Append(@, "Services"),
                          !.listErrs = @ \cup {"Services"},
                          !.metricErrors = Append(@, "ListServicesInNamespace"),
                          !.returned = TRUE]
    /\ pc' = "select"
    /\ UNCHANGED diffVars
    /\ UNCHANGED projVars
    /\ UNCHANGED <<catalog, stopC, tickerC, ticks, cause, queued, prev>>
    /\ UNCHANGED <<pending, svcs, currentEndpoints, desiredSvcs, desiredEndpoints, emitted>>

\* Services(namespace).List fails: the metric, the log, and an empty list
ListServicesFail ==
    /\ pc = "range"
    /\ pending = {}
    /\ currentServices' = << >>
    /\ cyc' = [cyc EXCEPT !.listCalls = Append(@, "Services"),
                          !.listErrs = @ \cup {"Services"},
                          !.metricErrors = Append(@, "ListServicesInNamespace")]
    /\ pc' = "listEps"
    /\ UNCHANGED diffVars
    /\ UNCHANGED projVars
    /\ UNCHANGED <<catalog, stopC, tickerC, ticks, cause, queued, prev>>
    /\ UNCHANGED <<pending, svcs, currentEndpoints, desiredSvcs, desiredEndpoints, emitted>>

ListServicesOK ==
    /\ pc = "range"
    /\ pending = {}
    /\ \E items \in ServiceLists : currentServices' = items
    /\ cyc' = [cyc EXCEPT !.listCalls = Append(@, "Services")]
    /\ pc' = "listEps"
    /\ UNCHANGED diffVars
    /\ UNCHANGED projVars
    /\ UNCHANGED <<catalog, stopC, tickerC, ticks, cause, queued, prev>>
    /\ UNCHANGED <<pending, svcs, currentEndpoints, desiredSvcs, desiredEndpoints, emitted>>

\* Endpoints(namespace).List fails: the metric, the log, and an empty list
ListEndpointsFail ==
    /\ pc = "listEps"
    /\ currentEndpoints' = << >>
    /\ cyc' = [cyc EXCEPT !.listCalls = Append(@, "Endpoints"),
                          !.listErrs = @ \cup {"Endpoints"},
                          !.metricErrors = Append(@, "ListEndpointsInNamespace")]
    /\ pc' = "reconcileSvcs"
    /\ UNCHANGED diffVars
    /\ UNCHANGED projVars
    /\ UNCHANGED <<catalog, stopC, tickerC, ticks, cause, queued, prev>>
    /\ UNCHANGED <<pending, svcs, currentServices, desiredSvcs, desiredEndpoints, emitted>>

ListEndpointsOK ==
    /\ pc = "listEps"
    /\ \E items \in EndpointsLists : currentEndpoints' = items
    /\ cyc' = [cyc EXCEPT !.listCalls = Append(@, "Endpoints")]
    /\ pc' = "reconcileSvcs"
    /\ UNCHANGED diffVars
    /\ UNCHANGED projVars
    /\ UNCHANGED <<catalog, stopC, tickerC, ticks, cause, queued, prev>>
    /\ UNCHANGED <<pending, svcs, currentServices, desiredSvcs, desiredEndpoints, emitted>>

\* desiredSvcs := kubeServices(...); r.reconcileSvcs(desiredSvcs, currentServices.Items)
ReconcileSvcs ==
    /\ pc = "reconcileSvcs"
    /\ LET desired == kubeServices(backendName, namespace, svcs)
           acts == svcActions(desired, currentServices)
       IN  /\ desiredSvcs' = desired
           /\ emitted' = emitted \o acts
           /\ queued' = (queued \/ acts # << >>)
    /\ cyc' = [cyc EXCEPT !.steps = @ \cup {"projectSvcs", "diffSvcs"}]
    /\ pc' = "reconcileEndpoints"
    /\ UNCHANGED diffVars
    /\ UNCHANGED projVars
    /\ UNCHANGED <<catalog, stopC, tickerC, ticks, cause, prev>>
    /\ UNCHANGED <<pending, svcs, currentServices, currentEndpoints, desiredEndpoints>>

\* desiredEndpoints := kubeEndpoints(...); r.reconcileEndpoints(...); the
\* metrics of the cycle; return
ReconcileEndpoints ==
    /\ pc = "reconcileEndpoints"
    /\ LET desired == kubeEndpoints(backendName, namespace, svcs)
           acts == endpointsActions(desired, currentEndpoints)
       IN  /\ desiredEndpoints' = desired
           /\ emitted' = emitted \o acts
           /\ queued' = (queued \/ acts # << >>)
    /\ cyc' = [cyc EXCEPT !.steps = @ \cup {"projectEndpoints", "diffEndpoints"},
                          !.returned = TRUE]
    /\ Return
    /\ UNCHANGED diffVars
    /\ UNCHANGED projVars
    /\ UNCHANGED <<catalog, stopC, tickerC, ticks, cause, prev>>
    /\ UNCHANGED <<pending, svcs, currentServices, currentEndpoints, desiredSvcs>>

Next ==
    \/ RunStart
    \/ RunStop
    \/ RunTick
    \/ Tick
    \/ Stop
    \/ Worker
    \/ CatalogFail
    \/ CatalogOK
    \/ RangeSkip
    \/ HealthFail
    \/ HealthOK
    \/ ListServicesFail
    \/ ListServicesOK
    \/ ListEndpointsFail
    \/ ListEndpointsOK
    \/ ReconcileSvcs
    \/ ReconcileEndpoints

Spec == Init /\ [][Next]_vars

\* Run is inside reconcile
InCycle == pc \in {"catalog", "range", "listEps", "reconcileSvcs", "reconcileEndpoints"}

\* a statement of Run or reconcile outside the select is executed: the
\* goroutine of Run is scheduled, and every call of the registry and the
\* cluster returns (of the steps of Next these alone change pc or pending
\* while Run is outside the select)
LoopStep ==
    /\ pc = "start" \/ InCycle
    /\ pc' \in {"catalog", "range", "listEps", "reconcileSvcs", "reconcileEndpoints", "select"}
    /\ pending' \in SUBSET Names

\* Run under the scheduling of the Go runtime: a select with several ready
\* cases picks one at random, so a stop channel that stays closed is picked
\* at one of the selects
Fairness == WF_<<pc, pending>>(LoopStep) /\ SF_vars(RunStop)

\* most services of the registry in the runs checked for termination
MaxLiveServices == 1

InitLive == Init /\ Cardinality(DOMAIN catalog) <= MaxLiveServices

SpecLive == InitLive /\ [][Next]_vars /\ Fairness

(***************************************************************************)
(* The differ on its own: diffServices and diffEndpoints applied to        *)
(* desired and current lists drawn from a small universe of resources.     *)
(***************************************************************************)
DiffModels ==
    {[Name |-> n, Port |-> p, Nodes |-> IF p = 0 THEN << >> ELSE <<"10.0.0.1">>] :
        n \in {web, db}, p \in {0, 80}}

\* a Service with the fields the projector does not set the same way: other
\* labels, another type and cluster IP
OtherService(svc) ==
    [svc EXCEPT !.Labels = {}, !.Type = "LoadBalancer", !.ClusterIP = "10.96.0.1"]

\* an Endpoints with other labels and no upstream name (as reconcile wraps a
\* listed v1.Endpoints)
OtherEndpoints(ep) ==
    [endpoints |-> [ep.endpoints EXCEPT !.Labels = {}], upstreamName |-> << >>]

\* three identities, two details each, and one resource in two versions that
\* differ outside its ports / subsets
DiffServiceUniverse ==
    {kubeService(backendName, namespace, m) : m \in DiffModels}
        \cup {kubeService(backendName, "other", m) : m \in {x \in DiffModels : x.Name = web}}
        \cup {OtherService(kubeService(backendName, namespace, m)) :
                 m \in {x \in DiffModels : x.Name = web /\ x.Port = 80}}

DiffEndpointsUniverse ==
    {kubeEndpoint(backendName, namespace, m) : m \in DiffModels}
        \cup {kubeEndpoint(backendName, "other", m) : m \in {x \in DiffModels : x.Name = web}}
        \cup {OtherEndpoints(kubeEndpoint(backendName, namespace, m)) :
                 m \in {x \in DiffModels : x.Name = web /\ x.Port = 80}}

SeqsUpTo(S, n) == UNION {[1..k -> S] : k \in 0..n}

InitDiff ==
    /\ diffKind \in {"Service", "Endpoints"}
    /\ diffDesired \in SeqsUpTo(IF diffKind = "Service" THEN DiffServiceUniverse
                                ELSE DiffEndpointsUniverse, MaxLen)
    /\ diffCurrent \in SeqsUpTo(IF diffKind = "Service" THEN DiffServiceUniverse
                                ELSE DiffEndpointsUniverse, MaxLen)
    /\ diffResult = NoDiff
    /\ catalog = << >>
    /\ pc = "differ"
    /\ stopC = FALSE
    /\ tickerC = FALSE
    /\ ticks = 0
    /\ cause = "none"
    /\ pending = {}
    /\ svcs = << >>
    /\ currentServices = << >>
    /\ currentEndpoints = << >>
    /\ desiredSvcs = << >>
    /\ desiredEndpoints = << >>
    /\ emitted = << >>
    /\ queued = FALSE
    /\ cyc = NoCalls
    /\ prev = NoPrev
    /\ servicesData = << >>

Returned(d) == [called |-> TRUE, add |-> d.add, update |-> d.update, del |-> d.del]

CallDiffServices ==
    /\ diffKind = "Service"
    /\ ~diffResult.called
    /\ diffResult' = Returned(diffServices(diffDesired, diffCurrent))
    /\ UNCHANGED <<diffKind, diffDesired, diffCurrent>>
    /\ UNCHANGED projVars
    /\ UNCHANGED <<catalog, prev, queued>>
    /\ UNCHANGED loopVars
    /\ UNCHANGED cycleVars

CallDiffEndpoints ==
    /\ diffKind = "Endpoints"
    /\ ~diffResult.called
    /\ diffResult' = Returned(diffEndpoints(diffDesired, diffCurrent))
    /\ UNCHANGED <<diffKind, diffDesired, diffCurrent>>
    /\ UNCHANGED projVars
    /\ UNCHANGED <<catalog, prev, queued>>
    /\ UNCHANGED loopVars
    /\ UNCHANGED cycleVars

NextDiff ==
    \/ CallDiffServices
    \/ CallDiffEndpoints

SpecDiff == InitDiff /\ [][NextDiff]_vars

(***************************************************************************)
(* The projector on its own: one included service, any answer of the       *)
(* health query up to MaxInstances instances, the Service built from it    *)
(* (reconcile, the body of the range) and its projections.                 *)
(***************************************************************************)
\* most instances one health answer holds
MaxInstances == 2

\* an entry of the health answer: entry.Service.Address, entry.Service.Port
Instances ==
    {[Address |-> a, Port |-> p] : a \in {"10.0.0.1", "10.0.0.2"}, p \in {0, 80, 81}}

InitProject ==
    /\ \E name \in Names :
          /\ catalog = [n \in {name} |-> <<"other", "gateway">>]
          /\ pending = {name}
    /\ servicesData \in SeqsUpTo(Instances, MaxInstances)
    /\ pc = "health"
    /\ stopC = FALSE
    /\ tickerC = FALSE
    /\ ticks = 0
    /\ cause = "none"
    /\ svcs = << >>
    /\ currentServices = << >>
    /\ currentEndpoints = << >>
    /\ desiredSvcs = << >>
    /\ desiredEndpoints = << >>
    /\ emitted = << >>
    /\ queued = FALSE
    /\ cyc = NoCalls
    /\ prev = NoPrev
    /\ diffKind = "none"
    /\ diffDesired = << >>
    /\ diffCurrent = << >>
    /\ diffResult = NoDiff

\* the body of the range once Health().Service has answered: svc, nodes,
\* svc.Port, and the append to svcs
BuildModel ==
    /\ pc = "health"
    /\ \E name \in pending :
          /\ contains(catalog[name], tagFilter)
          /\ pending' = pending \ {name}
          /\ svcs' = Append(svcs, buildService(name, servicesData))
    /\ pc' = "projectSvcs"
    /\ UNCHANGED diffVars
    /\ UNCHANGED projVars
    /\ UNCHANGED <<catalog, stopC, tickerC, ticks, cause, queued, prev>>
    /\ UNCHANGED <<currentServices, currentEndpoints, desiredSvcs, desiredEndpoints,
                   emitted, cyc>>

\* desiredSvcs := kubeServices(r.backendName, r.namespace, svcs)
ProjectServices ==
    /\ pc = "projectSvcs"
    /\ desiredSvcs' = kubeServices(backendName, namespace, svcs)
    /\ pc' = "projectEndpoints"
    /\ UNCHANGED diffVars
    /\ UNCHANGED projVars
    /\ UNCHANGED <<catalog, stopC, tickerC, ticks, cause, queued, prev>>
    /\ UNCHANGED <<pending, svcs, currentServices, currentEndpoints, desiredEndpoints,
                   emitted, cyc>>

\* desiredEndpoints := kubeEndpoints(r.backendName, r.namespace, svcs)
ProjectEndpoints ==
    /\ pc = "projectEndpoints"
    /\ desiredEndpoints' = kubeEndpoints(backendName, namespace, svcs)
    /\ pc' = "projected"
    /\ UNCHANGED diffVars
    /\ UNCHANGED projVars
    /\ UNCHANGED <<catalog, stopC, tickerC, ticks, cause, queued, prev>>
    /\ UNCHANGED <<pending, svcs, currentServices, currentEndpoints, desiredSvcs,
                   emitted, cyc>>

NextProject ==
    \/ BuildModel
    \/ ProjectServices
    \/ ProjectEndpoints

SpecProject == InitProject /\ [][NextProject]_vars

(***************************************************************************)
(* Identity and detail of a resource of either kind.                       *)
(***************************************************************************)
\* (namespace, name) of a v1.Service or of an Endpoints
IdOf(x) ==
    IF "endpoints" \in DOMAIN x THEN <<x.endpoints.Namespace, x.endpoints.Name>>
    ELSE <<x.Namespace, x.Name>>

\* the port list of a v1.Service, the subset list of an Endpoints
DetailOf(x) == IF "endpoints" \in DOMAIN x THEN x.endpoints.Subsets ELSE x.Ports

Ids(xs) == {IdOf(xs[i]) : i \in 1..Len(xs)}

Count(xs, id) == Cardinality({i \in 1..Len(xs) : IdOf(xs[i]) = id})

UniqueIds(xs) == \A i, j \in 1..Len(xs) : IdOf(xs[i]) = IdOf(xs[j]) => i = j

\* the entry of identity id in a list that holds it once
Entry(xs, id) == xs[CHOOSE i \in 1..Len(xs) : IdOf(xs[i]) = id]

(***************************************************************************)
(* C1. diffServices and diffEndpoints, on lists that hold each identity    *)
(* once at most: an identity only in desired is in add (once) and in no    *)
(* other set; one only in current is in del (once) and in no other set;    *)
(* one in both with a different detail (ports, subsets) is in update       *)
(* (once) only; one in both with the same detail is in none of the three.  *)
(***************************************************************************)
C1_Classification ==
    (diffResult.called /\ UniqueIds(diffDesired) /\ UniqueIds(diffCurrent)) =>
        \A id \in Ids(diffDesired) \cup Ids(diffCurrent) :
            LET inD == id \in Ids(diffDesired)
                inC == id \in Ids(diffCurrent)
                a == Count(diffResult.add, id)
                u == Count(diffResult.update, id)
                d == Count(diffResult.del, id)
            IN  /\ (inD /\ ~inC) => (a = 1 /\ u = 0 /\ d = 0)
                /\ (~inD /\ inC) => (a = 0 /\ u = 0 /\ d = 1)
                /\ (inD /\ inC /\ DetailOf(Entry(diffDesired, id)) # DetailOf(Entry(diffCurrent, id)))
                        => (a = 0 /\ u = 1 /\ d = 0)
                /\ (inD /\ inC /\ DetailOf(Entry(diffDesired, id)) = DetailOf(Entry(diffCurrent, id)))
                        => (a = 0 /\ u = 0 /\ d = 0)

\* one call that adds, updates and deletes, and one identity left alone elsewhere
C1_Witness ==
    /\ diffResult.called
    /\ UniqueIds(diffDesired) /\ UniqueIds(diffCurrent)
    /\ Len(diffResult.add) = 1
    /\ Len(diffResult.update) = 1
    /\ Len(diffResult.del) = 1

(***************************************************************************)
(* C2. For any desired and current lists, repeated identities included,    *)
(* the identities of add, of update and of del are pairwise disjoint.      *)
(***************************************************************************)
C2_Disjoint ==
    diffResult.called =>
        /\ Ids(diffResult.add) \cap Ids(diffResult.update) = {}
        /\ Ids(diffResult.add) \cap Ids(diffResult.del) = {}
        /\ Ids(diffResult.update) \cap Ids(diffResult.del) = {}

\* an identity repeated in both lists, with an update and an add returned
C2_Witness ==
    /\ diffResult.called
    /\ ~UniqueIds(diffDesired)
    /\ ~UniqueIds(diffCurrent)
    /\ diffResult.update # << >>

(***************************************************************************)
(* Vocabulary of the claims about the loop.                                *)
(***************************************************************************)
Range(f) == {f[i] : i \in 1..Len(f)}

\* the services of the catalog whose tag set holds the filter tag
Included == {n \in DOMAIN catalog : tagFilter \in Range(catalog[n])}

\* reconcile has returned, and not at the catalog query
CycleDone == cyc.returned /\ ~cyc.catalogErr

ModelNames == {svcs[i].Name : i \in 1..Len(svcs)}

\* the identity derived for a registry service
DerivedId(n) == IdOf(kubeService(backendName, namespace, [Name |-> n, Port |-> 0, Nodes |-> << >>]))

ServiceOps == {"AddService", "UpdateService", "DeleteService"}

EndpointsOps == {"AddEndpoints", "UpdateEndpoints", "DeleteEndpoints"}

emittedServices == SelectSeq(emitted, LAMBDA a : a.op \in ServiceOps)

emittedEndpoints == SelectSeq(emitted, LAMBDA a : a.op \in EndpointsOps)

OpsEmitted == {emitted[i].op : i \in 1..Len(emitted)}

\* the identities the cycle's actions of the given operations carry
IdsEmitted(ops) == {IdOf(emitted[i].obj) : i \in {k \in 1..Len(emitted) : emitted[k].op \in ops}}

\* the cycle starts: reconcile is entered
CycleStarts == pc # "catalog" /\ pc' = "catalog"

(***************************************************************************)
(* C3. Idempotence of the cycle.  As claimed: when the registry answers as *)
(* in the cycle before (the catalog is the same; the same health queries   *)
(* fail) and the observed Services and Endpoints are what applying that    *)
(* cycle's projection leaves (the same identities, each with the detail of *)
(* a projected entry of that identity), the cycle enqueues nothing.        *)
(***************************************************************************)
\* the cluster holds the projection: its identities, each with the detail of
\* one projected entry of that identity
Holds(observed, projection) ==
    /\ Ids(observed) = Ids(projection)
    /\ \A i \in 1..Len(observed) : \E j \in 1..Len(projection) :
          /\ IdOf(projection[j]) = IdOf(observed[i])
          /\ DetailOf(projection[j]) = DetailOf(observed[i])

SecondRun ==
    /\ prev.ran /\ ~prev.catalogErr
    /\ CycleDone
    /\ cyc.healthErrs = prev.healthErrs
    /\ cyc.listErrs = {}
    /\ Holds(currentServices, prev.desiredSvcs)
    /\ Holds(currentEndpoints, prev.desiredEndpoints)

\* C3 as claimed, for every registry content
C3_Idempotent_AsClaimed == SecondRun => emitted = << >>

\* no two Services of the cycle have names that differ in letter case only
NoCaseClash ==
    \A i, j \in 1..Len(svcs) : ToLower(svcs[i].Name) = ToLower(svcs[j].Name) => i = j

\* C3 amended: the cycle is idempotent when the Service Model list holds no two
\* names that differ in letter case only
C3_Idempotent == (SecondRun /\ NoCaseClash) => emitted = << >>

C3_Witness ==
    /\ SecondRun /\ NoCaseClash
    /\ Len(svcs) = 2
    /\ emitted = << >>

(***************************************************************************)
(* C4. The actions one cycle enqueues come in the order AddService,        *)
(* UpdateService, DeleteService, AddEndpoints, UpdateEndpoints,            *)
(* DeleteEndpoints: none is followed by one of an earlier rank.            *)
(***************************************************************************)
Rank(op) ==
    CASE op = "AddService" -> 1
      [] op = "UpdateService" -> 2
      [] op = "DeleteService" -> 3
      [] op = "AddEndpoints" -> 4
      [] op = "UpdateEndpoints" -> 5
      [] op = "DeleteEndpoints" -> 6

C4_Order ==
    \A i, j \in 1..Len(emitted) : i < j => Rank(emitted[i].op) <= Rank(emitted[j].op)

C4_Witness ==
    /\ cyc.returned
    /\ {"UpdateService", "DeleteService", "UpdateEndpoints", "DeleteEndpoints"} \subseteq OpsEmitted

(***************************************************************************)
(* C5. Run enters one reconcile cycle at its start, with no tick taken or  *)
(* waited for, and every later cycle takes a tick out of ticker.C; the     *)
(* loop goes Idle -> Reconciling -> Idle, and Stopped is entered from Idle *)
(* with the stop channel closed, and never left.                           *)
(***************************************************************************)
LoopState ==
    CASE pc \in {"start", "select"} -> "Idle"
      [] pc = "stopped" -> "Stopped"
      [] OTHER -> "Reconciling"

C5_Step ==
    /\ CycleStarts =>
          \/ pc = "start" /\ cause' = "eager" /\ ~tickerC /\ ~tickerC' /\ ticks' = 0
          \/ pc = "select" /\ cause' = "tick" /\ tickerC /\ ~tickerC' /\ ticks' = ticks + 1
    /\ pc' = "start" => pc = "start"
    /\ LoopState' # LoopState =>
          <<LoopState, LoopState'>> \in {<<"Idle", "Reconciling">>, <<"Reconciling", "Idle">>,
                                         <<"Idle", "Stopped">>}
    /\ (LoopState = "Idle" /\ LoopState' = "Reconciling") => CycleStarts
    /\ (LoopState' = "Stopped" /\ LoopState # "Stopped") => (pc = "select" /\ stopC)

\* C5: every step of Run starts a cycle eagerly or on a tick, and moves the
\* loop Idle -> Reconciling -> Idle, or Idle -> Stopped on the stop signal
C5_Loop == [][C5_Step]_vars

\* the eager cycle, a cycle started by a tick, and the stop
C5_Witness == pc = "stopped" /\ cause = "tick" /\ ticks = 1 /\ cyc.returned

(***************************************************************************)
(* C6. As claimed: no reconcile cycle starts once the stop signal has been *)
(* raised.  The code reads the stop channel in the select of the loop      *)
(* alone: the eager cycle starts whatever the channel says, and a select   *)
(* with a tick waiting may take the tick.                                  *)
(***************************************************************************)
C6_NoStartAfterStop_AsClaimed == ~cyc.afterStop

\* C6 amended, one step: a cycle that starts with the stop channel closed is the eager
\* one, or takes a tick that was waiting in the same select; with the stop
\* channel closed and no tick waiting the select can only stop; Stopped is
\* final
C6_Step ==
    /\ (CycleStarts /\ stopC) => (pc = "start" \/ (pc = "select" /\ tickerC))
    /\ (pc = "select" /\ stopC /\ ~tickerC) => pc' \in {"select", "stopped"}
    /\ pc = "stopped" => (pc' = "stopped" /\ emitted' = emitted /\ cyc' = cyc)

\* C6 amended: every step of Run reads the stop channel in the select alone
C6_StopInSelect == [][C6_Step]_vars

\* a cycle started by a tick after the stop channel was closed
C6_Witness == cyc.afterStop /\ cause = "tick" /\ pc = "stopped"

(***************************************************************************)
(* C7. A cycle whose catalog query fails queries no health, lists nothing, *)
(* projects and diffs nothing and enqueues nothing; the loop is back in    *)
(* its select, where a waiting tick starts a new cycle; and the cycle      *)
(* after a failed one, once through, has made every call of a cycle.       *)
(***************************************************************************)
AllSteps == {"catalog", "projectSvcs", "diffSvcs", "projectEndpoints", "diffEndpoints"}

C7_CatalogFailure ==
    /\ cyc.catalogErr =>
          /\ cyc.healthCalls = << >>
          /\ cyc.listCalls = << >>
          /\ cyc.steps = {}
          /\ svcs = << >> /\ desiredSvcs = << >> /\ desiredEndpoints = << >>
          /\ emitted = << >>
          /\ cyc.returned
          /\ pc \in {"select", "stopped"}
          /\ (pc = "select" /\ tickerC /\ ticks < MaxTicks) => ENABLED RunTick
    /\ (prev.ran /\ prev.catalogErr /\ CycleDone) =>
          /\ cyc.steps = AllSteps
          /\ cyc.listCalls = <<"Services", "Endpoints">>
          /\ Range(cyc.healthCalls) = Included

\* a failed cycle, then a tick, then a cycle that went through and enqueued
C7_Witness ==
    /\ prev.ran /\ prev.catalogErr
    /\ CycleDone
    /\ emitted # << >>

(***************************************************************************)
(* C8. A failed listing of the observed Services (Endpoints) calls the     *)
(* error metric once, and the cycle goes on with an empty observed list of *)
(* that kind: every desired entry of the kind is enqueued as an add, in    *)
(* order, and nothing else of the kind; the other kind is diffed against   *)
(* the list that was returned for it.                                      *)
(***************************************************************************)
Occurrences(f, x) == Cardinality({i \in 1..Len(f) : f[i] = x})

C8_ListFailure ==
    /\ Occurrences(cyc.metricErrors, "ListServicesInNamespace")
          = (IF "Services" \in cyc.listErrs THEN 1 ELSE 0)
    /\ Occurrences(cyc.metricErrors, "ListEndpointsInNamespace")
          = (IF "Endpoints" \in cyc.listErrs THEN 1 ELSE 0)
    /\ cyc.listErrs # {} => pc \notin {"catalog", "range"}
    /\ (cyc.returned /\ "Services" \in cyc.listErrs) =>
          /\ cyc.steps = AllSteps
          /\ emittedServices =
                [i \in 1..Len(desiredSvcs) |-> ServiceAction("AddService", desiredSvcs[i])]
          /\ "Endpoints" \notin cyc.listErrs =>
                emittedEndpoints = endpointsActions(kubeEndpoints(backendName, namespace, svcs),
                                                    currentEndpoints)
    /\ (cyc.returned /\ "Endpoints" \in cyc.listErrs) =>
          /\ cyc.steps = AllSteps
          /\ emittedEndpoints =
                [i \in 1..Len(desiredEndpoints) |->
                    EndpointsAction("AddEndpoints", desiredEndpoints[i])]
          /\ "Services" \notin cyc.listErrs =>
                emittedServices = svcActions(kubeServices(backendName, namespace, svcs),
                                             currentServices)

\* the Services listing failed, two Services are added, and the Endpoints
\* were diffed against a list that holds what the registry no longer has
C8_Witness ==
    /\ cyc.returned
    /\ cyc.listErrs = {"Services"}
    /\ Len(emittedServices) = 2
    /\ {"UpdateEndpoints", "DeleteEndpoints"} \subseteq OpsEmitted

(***************************************************************************)
(* C9. A failed health query leaves that service out of the Service list   *)
(* of this cycle; every included service is queried once in a cycle, the   *)
(* failed one too (no retry), the others are in the list and projected;    *)
(* and the service that failed is queried again in the next cycle.         *)
(***************************************************************************)
C9_HealthFailure ==
    /\ cyc.healthErrs \subseteq Range(cyc.healthCalls)
    /\ \A n \in Included : Occurrences(cyc.healthCalls, n) <= 1
    /\ ModelNames \cap cyc.healthErrs = {}
    /\ CycleDone =>
          /\ \A n \in Included : Occurrences(cyc.healthCalls, n) = 1
          /\ ModelNames = Included \ cyc.healthErrs
          /\ Len(svcs) = Cardinality(ModelNames)
          /\ \A i \in 1..Len(svcs) :
                /\ desiredSvcs[i] = kubeService(backendName, namespace, svcs[i])
                /\ desiredEndpoints[i] = kubeEndpoint(backendName, namespace, svcs[i])
          /\ Len(desiredSvcs) = Len(svcs) /\ Len(desiredEndpoints) = Len(svcs)
          /\ (prev.ran /\ ~prev.catalogErr) => prev.healthErrs \subseteq Range(cyc.healthCalls)

\* the query of one of two services failed in the cycle before, where the
\* other was projected, and it is back in the list of this cycle
C9_Witness ==
    /\ CycleDone
    /\ prev.ran /\ ~prev.catalogErr
    /\ Cardinality(prev.healthErrs) = 1
    /\ Len(prev.desiredSvcs) = 1
    /\ prev.healthErrs \subseteq ModelNames
    /\ Len(svcs) = 2

(***************************************************************************)
(* C10. As claimed: a registry service is in the Service list iff it       *)
(* carries the filter tag, and the identity derived for a service without  *)
(* the tag is in no projected list and in no add, update or delete list of *)
(* the cycle, whatever the observed state is.                              *)
(***************************************************************************)
AllOps == ServiceOps \cup EndpointsOps

C10_Filter_AsClaimed ==
    CycleDone =>
        /\ \A n \in DOMAIN catalog : n \in ModelNames <=> n \in Included
        /\ \A n \in (DOMAIN catalog) \ Included :
              /\ DerivedId(n) \notin Ids(desiredSvcs) \cup Ids(desiredEndpoints)
              /\ DerivedId(n) \notin IdsEmitted(AllOps)

\* a service of the list derives the same identity: its name differs from n
\* in letter case only
Shadowed(n) == \E m \in ModelNames : DerivedId(m) = DerivedId(n)

\* C10 amended: a service is queried iff it carries the tag, and is in the list
\* iff moreover its query succeeded; the identity of a service without the
\* tag, unless a service of the list derives the same identity, is in no
\* projected list and in no add or update, and is in the deletes of a kind
\* exactly when the observed list of that kind holds it
C10_Filter ==
    /\ ModelNames \subseteq Included
    /\ Range(cyc.healthCalls) \subseteq Included
    /\ CycleDone =>
          /\ \A n \in DOMAIN catalog :
                /\ n \in Range(cyc.healthCalls) <=> n \in Included
                /\ n \in ModelNames <=> (n \in Included /\ n \notin cyc.healthErrs)
          /\ \A n \in (DOMAIN catalog) \ Included :
                ~Shadowed(n) =>
                    /\ DerivedId(n) \notin Ids(desiredSvcs) \cup Ids(desiredEndpoints)
                    /\ DerivedId(n) \notin IdsEmitted({"AddService", "UpdateService",
                                                      "AddEndpoints", "UpdateEndpoints"})
                    /\ DerivedId(n) \in IdsEmitted({"DeleteService"})
                          <=> DerivedId(n) \in Ids(currentServices)
                    /\ DerivedId(n) \in IdsEmitted({"DeleteEndpoints"})
                          <=> DerivedId(n) \in Ids(currentEndpoints)

\* a service without the tag beside one with it, its resources still in the
\* cluster: they are deleted
C10_Witness ==
    /\ CycleDone
    /\ Len(svcs) = 1
    /\ \E n \in (DOMAIN catalog) \ Included :
          /\ ~Shadowed(n)
          /\ DerivedId(n) \in IdsEmitted({"DeleteService"})
          /\ DerivedId(n) \in IdsEmitted({"DeleteEndpoints"})

(***************************************************************************)
(* C11. kubeServices and kubeEndpoints return one resource per element of  *)
(* the Service slice, in its order and without merging (two elements that  *)
(* derive one name give two resources); the i-th Service and the i-th      *)
(* Endpoints have the same (namespace, name) and the same labels.          *)
(***************************************************************************)
\* the addresses of all subsets of an Endpoints, in order
AddressesOf(ep) ==
    IF ep.endpoints.Subsets = << >> THEN << >>
    ELSE [k \in 1..Len(ep.endpoints.Subsets[1].Addresses) |->
              ep.endpoints.Subsets[1].Addresses[k].IP]

C11_Projection ==
    CycleDone =>
        /\ Len(desiredSvcs) = Len(svcs)
        /\ Len(desiredEndpoints) = Len(svcs)
        /\ \A i \in 1..Len(svcs) :
              /\ desiredSvcs[i].Ports[1].Port = svcs[i].Port
              /\ AddressesOf(desiredEndpoints[i]) = svcs[i].Nodes
              /\ IdOf(desiredSvcs[i]) = IdOf(desiredEndpoints[i])
              /\ desiredSvcs[i].Labels = desiredEndpoints[i].endpoints.Labels

\* two services of one derived name, projected twice
C11_Witness ==
    /\ CycleDone
    /\ Len(svcs) = 2
    /\ svcs[1].Name # svcs[2].Name
    /\ IdOf(desiredSvcs[1]) = IdOf(desiredSvcs[2])
    /\ IdOf(desiredEndpoints[1]) = IdOf(desiredEndpoints[2])

(***************************************************************************)
(* C12. An identity whose desired and current entries all have the same    *)
(* ports (Services) or subsets (Endpoints) is in none of add, update and   *)
(* del, whatever the other fields of the entries are (labels, type,        *)
(* cluster IP, upstream name).                                             *)
(***************************************************************************)
SameDetail(id) ==
    \A i \in 1..Len(diffDesired), j \in 1..Len(diffCurrent) :
        (IdOf(diffDesired[i]) = id /\ IdOf(diffCurrent[j]) = id)
            => DetailOf(diffDesired[i]) = DetailOf(diffCurrent[j])

C12_DetailOnly ==
    diffResult.called =>
        \A id \in Ids(diffDesired) \cap Ids(diffCurrent) :
            SameDetail(id) =>
                id \notin Ids(diffResult.add) \cup Ids(diffResult.update)
                               \cup Ids(diffResult.del)

\* one desired and one current entry of the same identity and detail that
\* differ in their other fields: nothing to do
C12_Witness ==
    /\ diffResult.called
    /\ Len(diffDesired) = 1 /\ Len(diffCurrent) = 1
    /\ IdOf(diffDesired[1]) = IdOf(diffCurrent[1])
    /\ DetailOf(diffDesired[1]) = DetailOf(diffCurrent[1])
    /\ diffDesired[1] # diffCurrent[1]
    /\ diffKind = "Service"
    /\ diffResult.add = << >> /\ diffResult.update = << >> /\ diffResult.del = << >>

(***************************************************************************)
(* C13. The Service built for an included service has the port of the      *)
(* first instance of the health answer that reports a port other than 0    *)
(* (0 when none does), and as nodes the addresses of the instances in the  *)
(* order of the answer, duplicates kept.                                   *)
(***************************************************************************)
FirstNonZeroPort(data) ==
    LET nz == {i \in 1..Len(data) : data[i].Port # 0}
    IN  IF nz = {} THEN 0
        ELSE data[CHOOSE i \in nz : \A k \in nz : i <= k].Port

C13_FirstPortWins ==
    pc # "health" =>
        /\ Len(svcs) = 1
        /\ svcs[1].Name \in DOMAIN catalog
        /\ svcs[1].Port = FirstNonZeroPort(servicesData)
        /\ Len(svcs[1].Nodes) = Len(servicesData)
        /\ \A i \in 1..Len(servicesData) : svcs[1].Nodes[i] = servicesData[i].Address

\* two instances at one address with two ports: the first port stays, the
\* address is there twice
C13_Witness ==
    /\ pc = "projected"
    /\ Len(servicesData) = 2
    /\ servicesData[1].Port = 80 /\ servicesData[2].Port = 81
    /\ servicesData[1].Address = servicesData[2].Address
    /\ svcs[1].Port = 80
    /\ svcs[1].Nodes = <<servicesData[1].Address, servicesData[1].Address>>

(***************************************************************************)
(* C14. For a Service with a node at least, kubeEndpoints gives an         *)
(* Endpoints with one subset: every node address in the order of the       *)
(* slice, and one port, the port of the Service, TCP; kubeServices gives a *)
(* Service with one port whose number and target port are that port.       *)
(***************************************************************************)
C14_SubsetShape ==
    (pc = "projected" /\ Len(svcs[1].Nodes) >= 1) =>
        LET service == svcs[1]
            ep  == desiredEndpoints[1].endpoints
            svc == desiredSvcs[1]
        IN  /\ Len(ep.Subsets) = 1
            /\ Len(ep.Subsets[1].Addresses) = Len(service.Nodes)
            /\ \A i \in 1..Len(service.Nodes) :
                  ep.Subsets[1].Addresses[i].IP = service.Nodes[i]
            /\ Len(ep.Subsets[1].Ports) = 1
            /\ ep.Subsets[1].Ports[1].Port = service.Port
            /\ ep.Subsets[1].Ports[1].Protocol = "TCP"
            /\ Len(svc.Ports) = 1
            /\ svc.Ports[1].Port = service.Port
            /\ svc.Ports[1].TargetPort = [Type |-> "Int", IntVal |-> service.Port]

\* two nodes at two addresses, the second the one that reports the port
C14_Witness ==
    /\ pc = "projected"
    /\ svcs[1].Nodes = <<"10.0.0.2", "10.0.0.1">>
    /\ servicesData[1].Port = 0
    /\ svcs[1].Port = 81
    /\ Len(desiredEndpoints[1].endpoints.Subsets) = 1
    /\ Len(desiredEndpoints[1].endpoints.Subsets[1].Addresses) = 2

(***************************************************************************)
(* C15. The name derived for a service depends on the backend name and the *)
(* lower-cased service name alone: two services of a cycle get the same    *)
(* resource name exactly when their lower-cased names are equal, and a     *)
(* cycle that builds the same services as the cycle before derives the     *)
(* same names.                                                             *)
(***************************************************************************)
C15_Naming ==
    CycleDone =>
        /\ \A i, j \in 1..Len(svcs) :
              /\ desiredSvcs[i].Name = desiredSvcs[j].Name
                    <=> ToLower(svcs[i].Name) = ToLower(svcs[j].Name)
              /\ desiredEndpoints[i].endpoints.Name = desiredEndpoints[j].endpoints.Name
                    <=> ToLower(svcs[i].Name) = ToLower(svcs[j].Name)
        /\ (prev.ran /\ ~prev.catalogErr /\ cyc.healthErrs = prev.healthErrs) =>
              /\ Ids(desiredSvcs) = Ids(prev.desiredSvcs)
              /\ Ids(desiredEndpoints) = Ids(prev.desiredEndpoints)

\* a second cycle over two services whose names differ beyond letter case
C15_Witness ==
    /\ CycleDone
    /\ prev.ran /\ ~prev.catalogErr /\ cyc.healthErrs = prev.healthErrs
    /\ Len(svcs) = 2
    /\ ToLower(svcs[1].Name) # ToLower(svcs[2].Name)
    /\ svcs[1].Name # ToLower(svcs[1].Name)
    /\ desiredSvcs[1].Name # desiredSvcs[2].Name
    /\ Ids(desiredSvcs) = Ids(prev.desiredSvcs)

(***************************************************************************)
(* C16. Every failed call of a cycle, the catalog query and the health     *)
(* queries as well as the listings, has its call of                        *)
(* metrics.GenericMetricError: a cycle that has returned has made as many  *)
(* of these calls as it had failures.                                      *)
(***************************************************************************)
C16_RegistryFailureMetric ==
    cyc.returned =>
        Len(cyc.metricErrors) >=
            (IF cyc.catalogErr THEN 1 ELSE 0) + Cardinality(cyc.healthErrs)
                + Cardinality(cyc.listErrs)

(***************************************************************************)
(* C17. As claimed: when several current entries have the identity of a    *)
(* desired entry, the first of them alone is matched: the diff holds one   *)
(* update of that identity at most, and no delete of it.                   *)
(***************************************************************************)
C17_FirstObservedWins_AsClaimed ==
    diffResult.called =>
        \A id \in Ids(diffDesired) :
            Count(diffCurrent, id) > 1 =>
                /\ Count(diffResult.update, id) <= 1
                /\ Count(diffResult.del, id) = 0

\* the first desired entry of an identity
FirstDesired(id) ==
    diffDesired[CHOOSE j \in 1..Len(diffDesired) :
                    /\ IdOf(diffDesired[j]) = id
                    /\ \A k \in 1..(j - 1) : IdOf(diffDesired[k]) # id]

\* the current entries of an identity whose detail is not that of the first
\* desired entry of the identity
Differing(id) ==
    {i \in 1..Len(diffCurrent) :
        /\ IdOf(diffCurrent[i]) = id
        /\ DetailOf(diffCurrent[i]) # DetailOf(FirstDesired(id))}

\* C17 amended: the first match is the first DESIRED entry of the identity;
\* every current entry of the identity is compared with it on its own, and
\* gives one update, carrying that desired entry, when its detail differs;
\* none gives a delete
C17_FirstDesiredWins ==
    diffResult.called =>
        \A id \in Ids(diffDesired) \cap Ids(diffCurrent) :
            /\ Count(diffResult.update, id) = Cardinality(Differing(id))
            /\ \A k \in 1..Len(diffResult.update) :
                  IdOf(diffResult.update[k]) = id => diffResult.update[k] = FirstDesired(id)
            /\ Count(diffResult.del, id) = 0

\* two desired and two current entries of one identity: two updates, both
\* the first desired entry
C17_Witness ==
    /\ diffResult.called
    /\ diffKind = "Endpoints"
    /\ Len(diffDesired) = 2 /\ Len(diffCurrent) = 2
    /\ IdOf(diffDesired[1]) = IdOf(diffDesired[2])
    /\ DetailOf(diffDesired[1]) # DetailOf(diffDesired[2])
    /\ IdOf(diffCurrent[1]) = IdOf(diffDesired[1])
    /\ IdOf(diffCurrent[2]) = IdOf(diffDesired[1])
    /\ diffResult.update = <<diffDesired[1], diffDesired[1]>>

(***************************************************************************)
(* C18. One reconcile cycle at a time: a cycle starts at the start of Run  *)
(* or in the select, after the cycle before has returned; a tick that      *)
(* fires while a cycle runs waits in ticker.C and changes nothing of the   *)
(* cycle; a worker of the queue that takes an action changes nothing of    *)
(* the loop or the cycle, and a tick waiting in the select can be taken    *)
(* whatever the queue holds.                                               *)
(***************************************************************************)
C18_Step ==
    /\ CycleStarts => (pc \in {"start", "select"} /\ (pc = "select" => cyc.returned))
    /\ (InCycle /\ InCycle') => (cause' = cause /\ ticks' = ticks /\ cyc'.afterStop = cyc.afterStop)
    /\ InCycle => ~cyc.returned
    /\ (~tickerC /\ tickerC') => (pc' = pc /\ UNCHANGED cycleVars /\ queued' = queued)
    /\ (queued /\ ~queued') => (UNCHANGED loopVars /\ UNCHANGED cycleVars)
    /\ (pc = "select" /\ tickerC /\ ticks < MaxTicks) => ENABLED RunTick

\* C18: every step keeps the cycles apart and the queue workers out of the loop
C18_OneCycle == [][C18_Step]_vars

\* a tick waits while the eager cycle is still running and the queue holds
\* its Service actions
C18_Witness ==
    /\ pc = "reconcileEndpoints"
    /\ cause = "eager"
    /\ tickerC
    /\ queued
    /\ emitted # << >>

(***************************************************************************)
(* C19. Once the stop channel is closed Run returns in the end, every call *)
(* of a cycle returning: closing the channel changes nothing of a cycle in *)
(* flight, Run returns from the select alone, after the cycle has returned *)
(* with all its actions enqueued, and after that no cycle starts and       *)
(* nothing is enqueued.                                                    *)
(***************************************************************************)
\* the actions the diffs of the cycle ask for
ActionsDue ==
    LET s == diffServices(desiredSvcs, currentServices)
        e == diffEndpoints(desiredEndpoints, currentEndpoints)
    IN  Len(s.add) + Len(s.update) + Len(s.del) + Len(e.add) + Len(e.update) + Len(e.del)

C19_Step ==
    /\ (~stopC /\ stopC') => (pc' = pc /\ UNCHANGED cycleVars)
    /\ InCycle => pc' # "stopped"
    /\ (pc # "stopped" /\ pc' = "stopped") =>
          /\ pc = "select" /\ stopC /\ cyc.returned
          /\ UNCHANGED cycleVars
          /\ CycleDone =>
                /\ {"projectSvcs", "diffSvcs", "projectEndpoints", "diffEndpoints"}
                        \subseteq cyc.steps
                /\ Len(emitted) = ActionsDue
    /\ pc = "stopped" => (pc' = "stopped" /\ UNCHANGED cycleVars)

C19_StopTerminates == [][C19_Step]_vars /\ (stopC ~> pc = "stopped")

\* Run has returned after a cycle that was entered before the stop and
\* enqueued actions of both kinds
C19_Witness ==
    /\ pc = "stopped"
    /\ stopC /\ ~cyc.afterStop
    /\ CycleDone
    /\ emittedServices # << >> /\ emittedEndpoints # << >>

(***************************************************************************)
(* C20. The add and update actions of a cycle carry entries of the         *)
(* projection (an update with ports / subsets other than the observed      *)
(* ones, an Endpoints action with the upstream name of the projection),    *)
(* the delete actions carry observed entries, and there is one action per  *)
(* entry to add, update or delete.                                         *)
(***************************************************************************)
\* an Endpoints action as the Endpoints it was made from
Carried(a) == [endpoints |-> a.obj, upstreamName |-> a.upstreamName]

\* how many actions of one op the cycle enqueued
Enqueued(op) == Cardinality({k \in 1..Len(emitted) : emitted[k].op = op})

\* the entries of xs whose identity ys does not hold
Missing(xs, ys) == Cardinality({i \in 1..Len(xs) : IdOf(xs[i]) \notin Ids(ys)})

\* the observed entries whose detail is not that of the first projected entry
\* of their identity
Stale(observed, projection) ==
    Cardinality({i \in 1..Len(observed) :
        /\ IdOf(observed[i]) \in Ids(projection)
        /\ \E j \in 1..Len(projection) :
              /\ IdOf(projection[j]) = IdOf(observed[i])
              /\ \A k \in 1..(j - 1) : IdOf(projection[k]) # IdOf(observed[i])
              /\ DetailOf(projection[j]) # DetailOf(observed[i])})

C20_Payload ==
    CycleDone =>
        /\ \A k \in 1..Len(emitted) :
              LET a == emitted[k]
              IN  /\ a.op \in {"AddService", "UpdateService"} => a.obj \in Range(desiredSvcs)
                  /\ a.op = "UpdateService" =>
                        a.obj.Ports # Entry(currentServices, IdOf(a.obj)).Ports
                  /\ a.op = "DeleteService" => a.obj \in Range(currentServices)
                  /\ a.op \in {"AddEndpoints", "UpdateEndpoints"} =>
                        /\ Carried(a) \in Range(desiredEndpoints)
                        /\ \E i \in 1..Len(svcs) : a.upstreamName = ToLower(svcs[i].Name)
                  /\ a.op = "UpdateEndpoints" =>
                        a.obj.Subsets # Entry(currentEndpoints, IdOf(Carried(a))).endpoints.Subsets
                  /\ a.op = "DeleteEndpoints" => Carried(a) \in Range(currentEndpoints)
        /\ Enqueued("AddService") = Missing(desiredSvcs, currentServices)
        /\ Enqueued("UpdateService") = Stale(currentServices, desiredSvcs)
        /\ Enqueued("DeleteService") = Missing(currentServices, desiredSvcs)
        /\ Enqueued("AddEndpoints") = Missing(desiredEndpoints, currentEndpoints)
        /\ Enqueued("UpdateEndpoints") = Stale(currentEndpoints, desiredEndpoints)
        /\ Enqueued("DeleteEndpoints") = Missing(currentEndpoints, desiredEndpoints)

\* a cycle with an update and a delete of each kind
C20_Witness ==
    /\ CycleDone
    /\ Enqueued("UpdateService") = 1 /\ Enqueued("DeleteService") = 1
    /\ Enqueued("UpdateEndpoints") = 1 /\ Enqueued("DeleteEndpoints") = 1

(***************************************************************************)
(* C21. As claimed: when the health query of an included service fails in  *)
(* a cycle whose observed Services and Endpoints hold the identity derived *)
(* for it, that identity is in neither desired list and the cycle enqueues *)
(* DeleteService and DeleteEndpoints for it.                               *)
(***************************************************************************)
C21_FailureDeletes_AsClaimed ==
    CycleDone =>
        \A n \in cyc.healthErrs :
            (DerivedId(n) \in Ids(currentServices) /\ DerivedId(n) \in Ids(currentEndpoints))
                => /\ DerivedId(n) \notin Ids(desiredSvcs) \cup Ids(desiredEndpoints)
                   /\ DerivedId(n) \in IdsEmitted({"DeleteService"})
                   /\ DerivedId(n) \in IdsEmitted({"DeleteEndpoints"})

\* C21 amended: the service whose query failed is not in the Service slice;
\* unless a service of the slice derives the same identity (a name that
\* differs in letter case only), the identity is in neither desired list, and
\* the cycle enqueues a delete of each kind whose observed list holds it and
\* no add or update of it
C21_FailureDeletes ==
    CycleDone =>
        \A n \in cyc.healthErrs :
            /\ n \notin ModelNames
            /\ ~Shadowed(n) =>
                  /\ DerivedId(n) \notin Ids(desiredSvcs) \cup Ids(desiredEndpoints)
                  /\ DerivedId(n) \notin IdsEmitted({"AddService", "UpdateService",
                                                    "AddEndpoints", "UpdateEndpoints"})
                  /\ DerivedId(n) \in Ids(currentServices)
                        => DerivedId(n) \in IdsEmitted({"DeleteService"})
                  /\ DerivedId(n) \in Ids(currentEndpoints)
                        => DerivedId(n) \in IdsEmitted({"DeleteEndpoints"})

\* the query of a service fails while the cluster holds its Service and its
\* Endpoints: both are deleted
C21_Witness ==
    /\ CycleDone
    /\ \E n \in cyc.healthErrs :
          /\ ~Shadowed(n)
          /\ DerivedId(n) \in Ids(currentServices)
          /\ DerivedId(n) \in Ids(currentEndpoints)
          /\ DerivedId(n) \in IdsEmitted({"DeleteService"})
          /\ DerivedId(n) \in IdsEmitted({"DeleteEndpoints"})

(***************************************************************************)
(* C22. An included service whose health query answers with no instance   *)
(* is in the Service slice and projected: a Service with one port, number  *)
(* 0, and an Endpoints with no subset; no delete of its identity is        *)
(* enqueued.                                                               *)
(***************************************************************************)
\* the services of the cycle whose query answered with no instance
Answered(n) == n \in Range(cyc.healthCalls) /\ n \notin cyc.healthErrs

C22_ZeroInstances ==
    CycleDone =>
        \A n \in DOMAIN catalog :
            (Answered(n) /\ healthyInstances(n) = << >>) =>
                /\ \E i \in 1..Len(svcs) :
                      /\ svcs[i].Name = n
                      /\ IdOf(desiredSvcs[i]) = DerivedId(n)
                      /\ Len(desiredSvcs[i].Ports) = 1
                      /\ desiredSvcs[i].Ports[1].Port = 0
                      /\ IdOf(desiredEndpoints[i]) = DerivedId(n)
                      /\ desiredEndpoints[i].endpoints.Subsets = << >>
                /\ DerivedId(n) \notin IdsEmitted({"DeleteService", "DeleteEndpoints"})

\* a service without instances whose resources the cluster holds
C22_Witness ==
    /\ CycleDone
    /\ \E n \in DOMAIN catalog :
          /\ Answered(n) /\ healthyInstances(n) = << >>
          /\ DerivedId(n) \in Ids(currentServices)
          /\ DerivedId(n) \in Ids(currentEndpoints)
          /\ DerivedId(n) \in Ids(desiredSvcs)
          /\ DerivedId(n) \notin IdsEmitted({"DeleteService", "DeleteEndpoints"})

=============================================================================
